---- MODULE Spec2Model ----
(***************************************************************************)
(* Model of echemdb-converters: the CSV loaders' field reconciliation      *)
(* (csvloader.py, eclabloader.py) and the electrochemistry converter's     *)
(* dimension validation and selection (ecconverter.py, converter.py).      *)
(*                                                                         *)
(* A field descriptor is a record whose domain is the set of keys the      *)
(* Python dict holds; a descriptor without the key "name" is a record      *)
(* whose domain lacks "name".  Python lists are sequences.                 *)
(***************************************************************************)
EXTENDS Integers, Sequences, FiniteSets, TLC

VARIABLES loader, arg, result, registry, converter, seen

vars == <<loader, arg, result, registry, converter, seen>>

\* everything but the value returned by the last call
frame == <<loader, arg, registry, converter, seen>>

(***************************************************************************)
(* Bounds of the model.                                                    *)
(***************************************************************************)
\* longest list of column names handed to the dimension classmethods
MaxDimCols == 4
\* largest number of columns of a loaded file
MaxCols == 3
\* longest list of user-supplied field descriptors
MaxFields == 3

(***************************************************************************)
(* Helpers for Python lists.                                               *)
(***************************************************************************)
ToSet(s) == {s[i] : i \in DOMAIN s}

\* all sequences over S of length at most n
SeqsUpTo(S, n) == UNION {[1..k -> S] : k \in 0..n}

\* sequences without repetition
IsInjective(s) == \A i, j \in DOMAIN s : i # j => s[i] # s[j]

\* list.remove(x): drops the first element equal to x
RECURSIVE ListRemoveFrom(_, _, _)
ListRemoveFrom(l, x, i) ==
    IF i > Len(l) THEN l
    ELSE IF l[i] = x THEN SubSeq(l, 1, i - 1) \o SubSeq(l, i + 1, Len(l))
    ELSE ListRemoveFrom(l, x, i + 1)

ListRemove(l, x) == ListRemoveFrom(l, x, 1)

(***************************************************************************)
(* Dimension validation and selection (ECConverter classmethods).          *)
(***************************************************************************)
NoError == <<"none">>

MissingDimension(key) == <<"KeyError", "No column with a '" \o key \o "' axis.">>

\* the dict literal, in insertion order
core_dimensions ==
    << [key |-> "time",    item |-> <<"t">>],
       [key |-> "voltage", item |-> <<"E", "U">>],
       [key |-> "current", item |-> <<"I", "j">>] >>

valid_dimensions == core_dimensions

\* the for loop of _validate_core_dimensions from its k-th iteration on:
\* raises at the first dimension without an alias, returns True otherwise
RECURSIVE ValidateFrom(_, _)
ValidateFrom(k, column_names) ==
    IF k > Len(core_dimensions) THEN NoError
    ELSE IF ToSet(core_dimensions[k].item) \cap ToSet(column_names) = {}
         THEN MissingDimension(core_dimensions[k].key)
         ELSE ValidateFrom(k + 1, column_names)

\* variant: the loop starts at the second entry of the dict
_validate_core_dimensions_skip_first(column_names) ==
    ValidateFrom(2, column_names)

_validate_core_dimensions(column_names) == ValidateFrom(1, column_names)

\* variant: the inner loop breaks at the first alias found
RECURSIVE AppendItems_first_match(_, _, _, _)
AppendItems_first_match(items, i, column_names, available_dimensions) ==
    IF i > Len(items) THEN available_dimensions
    ELSE IF items[i] \in ToSet(column_names)
         THEN Append(available_dimensions, items[i])
         ELSE AppendItems_first_match(items, i + 1, column_names,
                                      available_dimensions)

\* the inner loop over the aliases of one dimension
RECURSIVE AppendItems(_, _, _, _)
AppendItems(items, i, column_names, available_dimensions) ==
    IF i > Len(items) THEN available_dimensions
    ELSE AppendItems(items, i + 1, column_names,
                     IF items[i] \in ToSet(column_names)
                     THEN Append(available_dimensions, items[i])
                     ELSE available_dimensions)

\* variant: the columns are filtered in their own order
AppendDimensions_input_order(k, column_names, available_dimensions) ==
    available_dimensions
    \o SelectSeq(column_names,
                 LAMBDA c : \E d \in DOMAIN valid_dimensions :
                                c \in ToSet(valid_dimensions[d].item))

\* the outer loop over the dimensions
RECURSIVE AppendDimensions(_, _, _)
AppendDimensions(k, column_names, available_dimensions) ==
    IF k > Len(valid_dimensions) THEN available_dimensions
    ELSE AppendDimensions(k + 1, column_names,
             AppendItems(valid_dimensions[k].item, 1, column_names,
                         available_dimensions))

\* returns [error, value]: value is meaningful only when error = NoError
get_electrochemistry_dimensions(column_names) ==
    LET validated == _validate_core_dimensions(column_names)
    IN  IF validated # NoError
        THEN [error |-> validated, value |-> <<>>]
        ELSE [error |-> NoError,
              value |-> AppendDimensions(1, column_names, <<>>)]

(***************************************************************************)
(* Field descriptors and the loaders (CSVloader, ECLabLoader).             *)
(***************************************************************************)
\* the static registry of eclabloader.py, in its order
biologic_fields ==
    << [name |-> "mode"],
       [name |-> "ox/red"],
       [name |-> "error"],
       [name |-> "control changes"],
       [name |-> "counter inc."],
       [name |-> "time/s", unit |-> "s", dimension |-> "t",
        description |-> "relative time"],
       [name |-> "control/V", unit |-> "V", dimension |-> "E",
        description |-> "control voltage"],
       [name |-> "Ewe/V", unit |-> "V", dimension |-> "E",
        description |-> "working electrode potential"],
       [name |-> "<I>/mA", unit |-> "mA", dimension |-> "I",
        description |-> "working electrode current"],
       [name |-> "cycle number", description |-> "cycle number"],
       [name |-> "(Q-Qo)/C", unit |-> "C"],
       [name |-> "I Range", description |-> "current range"],
       [name |-> "P/W", unit |-> "W", dimension |-> "P",
        description |-> "power"],
       [name |-> "Unnamed: 13"] >>

\* field['name'] raises KeyError exactly when the key is absent
HasName(field) == "name" \in DOMAIN field

\* Field.name of frictionless 4: the value of the key "name", and the
\* default "field" for a descriptor without that key
FieldName(field) == IF HasName(field) THEN field.name ELSE "field"

\* Schema.field_names
field_names(fields) == [i \in DOMAIN fields |-> FieldName(fields[i])]

\* Schema.get_field(name): the first field bearing the name
RECURSIVE GetFieldFrom(_, _, _)
GetFieldFrom(fields, name, i) ==
    IF FieldName(fields[i]) = name THEN fields[i]
    ELSE GetFieldFrom(fields, name, i + 1)

get_field(fields, name) == GetFieldFrom(fields, name, 1)

\* Schema.remove_field(name): self.fields.remove(self.get_field(name))
remove_field(fields, name) == ListRemove(fields, get_field(fields, name))

\* CSVloader.create_field
create_field(name) ==
    [name |-> name, comment |-> "Created by echemdb-converters."]

\* CSVloader.create_fields: one placeholder per column, in column order
CSVloader_create_fields(column_names) ==
    [i \in DOMAIN column_names |-> create_field(column_names[i])]

\* the inner "for name in self.column_names if name == field['name']"
RECURSIVE MatchesOf(_, _, _)
MatchesOf(field, column_names, i) ==
    IF i > Len(column_names) THEN <<>>
    ELSE (IF column_names[i] = field.name THEN <<field>> ELSE <<>>)
         \o MatchesOf(field, column_names, i + 1)

\* ECLabLoader.create_fields: the outer "for field in biologic_fields"
RECURSIVE RegistryFieldsFrom(_, _)
RegistryFieldsFrom(k, column_names) ==
    IF k > Len(registry) THEN <<>>
    ELSE MatchesOf(registry[k], column_names, 1)
         \o RegistryFieldsFrom(k + 1, column_names)

\* variant: the descriptors are looked up column by column, in file order
ECLabLoader_create_fields_file_order(column_names) ==
    LET RECURSIVE ByColumn(_)
        ByColumn(i) ==
            IF i > Len(column_names) THEN <<>>
            ELSE SelectSeq(registry, LAMBDA f : f.name = column_names[i])
                 \o ByColumn(i + 1)
    IN  ByColumn(1)

ECLabLoader_create_fields(column_names) == RegistryFieldsFrom(1, column_names)

\* self.create_fields(), dispatched on the loader's class
create_fields(l) ==
    IF l.kind = "ECLabLoader"
    THEN ECLabLoader_create_fields(l.column_names)
    ELSE CSVloader_create_fields(l.column_names)

\* first loop of CSVloader.fields: "for field in schema.fields" removing the
\* nameless field from the list it iterates over; i is the iterator's
\* position, which advances whether or not the list shrank.
\* st = [fields, log]
RECURSIVE DropNameless(_, _)
DropNameless(st, i) ==
    IF i > Len(st.fields) THEN st
    ELSE IF ~HasName(st.fields[i])
         THEN DropNameless([fields |-> ListRemove(st.fields, st.fields[i]),
                            log    |-> Append(st.log, "no attribute name")],
                           i + 1)
         ELSE DropNameless(st, i + 1)

\* variant: the second loop walks the live field list it removes from
RECURSIVE RemoveObsolete_live_list(_, _, _, _)
RemoveObsolete_live_list(st, names, k, column_names) ==
    IF k > Len(st.fields) THEN st
    ELSE IF FieldName(st.fields[k]) \notin ToSet(column_names)
         THEN RemoveObsolete_live_list(
                  [st EXCEPT !.fields = ListRemove(@, st.fields[k])],
                  names, k + 1, column_names)
         ELSE RemoveObsolete_live_list(st, names, k + 1, column_names)

\* second loop: "for name in schema.field_names" over the list of names
\* taken before the loop
RECURSIVE RemoveObsolete(_, _, _, _)
RemoveObsolete(st, names, k, column_names) ==
    IF k > Len(names) THEN st
    ELSE IF names[k] \notin ToSet(column_names)
         THEN RemoveObsolete([st EXCEPT !.fields = remove_field(@, names[k])],
                             names, k + 1, column_names)
         ELSE RemoveObsolete(st, names, k + 1, column_names)

\* variant: the third loop stops one column short
RECURSIVE AddMissing_but_last(_, _, _)
AddMissing_but_last(st, column_names, k) ==
    IF k >= Len(column_names) THEN st
    ELSE IF column_names[k] \notin ToSet(field_names(st.fields))
         THEN AddMissing_but_last(
                  [fields |-> Append(st.fields, create_field(column_names[k])),
                   log    |-> Append(st.log, "field added")],
                  column_names, k + 1)
         ELSE AddMissing_but_last(st, column_names, k + 1)

\* third loop: "for name in self.column_names" adding create_field(name)
RECURSIVE AddMissing(_, _, _)
AddMissing(st, column_names, k) ==
    IF k > Len(column_names) THEN st
    ELSE IF column_names[k] \notin ToSet(field_names(st.fields))
         THEN AddMissing([fields |-> Append(st.fields,
                                            create_field(column_names[k])),
                          log    |-> Append(st.log, "field added")],
                         column_names, k + 1)
         ELSE AddMissing(st, column_names, k + 1)

\* CSVloader.fields, inherited by ECLabLoader.  Returns [error, value, log];
\* the code has no raise statement on this path.
fields(l) ==
    IF l._fields = <<>>
    THEN [error |-> NoError, value |-> create_fields(l), log |-> <<>>]
    ELSE LET s0 == [fields |-> l._fields, log |-> <<>>]
             s1 == DropNameless(s0, 1)
             s2 == RemoveObsolete(s1, field_names(s1.fields), 1,
                                  l.column_names)
             s3 == AddMissing(s2, l.column_names, 1)
         IN  [error |-> NoError, value |-> s3.fields, log |-> s3.log]

(***************************************************************************)
(* Inputs.                                                                 *)
(***************************************************************************)
\* names handed to the dimension classmethods: every alias and one other
DimNames == {"t", "E", "U", "I", "j", "x"}

DimColumnLists == SeqsUpTo(DimNames, MaxDimCols)

\* column names of the loaded files: plain names, a name of the EC-Lab
\* registry, and the default name frictionless gives a nameless field
ColumnNames == {"t", "E", "j", "time/s", "field"}

\* pandas hands out distinct column names
ColumnLists ==
    {c \in SeqsUpTo(ColumnNames, MaxCols) : Len(c) >= 1 /\ IsInjective(c)}

\* descriptors a user may pass as fields
UserDescriptors ==
    { [name |-> "t", unit |-> "s"],
      [name |-> "E", unit |-> "V", reference |-> "RHE"],
      [name |-> "j", unit |-> "uA / cm2"],
      [name |-> "x"],
      [unit |-> "V"] }

\* fields=None and fields=[] are both the empty sequence
UserFieldLists == SeqsUpTo(UserDescriptors, MaxFields)

Loaders ==
    [kind : {"CSVloader", "ECLabLoader"},
     column_names : ColumnLists,
     _fields : UserFieldLists]

(***************************************************************************)
(* State machine of a loader and its accessors.                            *)
(***************************************************************************)
\* the outcomes each public accessor of the converter has given so far
TrackedAccessors ==
    {"converter.schema", "converter.column_names", "converter.df"}

\* repeated: some accessor was accessed after an earlier access
NothingSeen ==
    [outcomes |-> [op \in TrackedAccessors |-> {}], repeated |-> FALSE]

\* a converter that plays no part: the loader is used on its own
NoConverter == [cls |-> "none"]

Init ==
    /\ loader \in Loaders
    /\ arg = <<>>
    /\ result = [op |-> "init"]
    /\ registry = biologic_fields
    /\ converter = NoConverter
    /\ seen = NothingSeen

\* loader.column_names
ColumnNamesAccess ==
    /\ result' = [op |-> "column_names", error |-> NoError,
                  value |-> loader.column_names]
    /\ UNCHANGED frame

\* loader.create_fields()
CreateFields ==
    /\ result' = [op |-> "create_fields", error |-> NoError,
                  value |-> create_fields(loader)]
    /\ UNCHANGED frame

\* loader.fields
Fields ==
    /\ LET r == fields(loader)
       IN  result' = [op |-> "fields", error |-> r.error,
                      value |-> r.value, log |-> r.log]
    /\ UNCHANGED frame

\* loader.schema: Schema(fields=self.fields)
SchemaAccess ==
    /\ LET r == fields(loader)
       IN  result' = [op |-> "schema", error |-> r.error,
                      value |-> r.value, log |-> r.log]
    /\ UNCHANGED frame

Next ==
    \/ ColumnNamesAccess
    \/ CreateFields
    \/ Fields
    \/ SchemaAccess

Spec == Init /\ [][Next]_vars

(***************************************************************************)
(* State machine of the dimension classmethods on arbitrary name lists.    *)
(***************************************************************************)
InitDims ==
    /\ loader = [kind |-> "CSVloader", column_names |-> <<"t">>,
                 _fields |-> <<>>]
    /\ arg \in DimColumnLists
    /\ result = [op |-> "init"]
    /\ registry = biologic_fields
    /\ converter = NoConverter
    /\ seen = NothingSeen

ValidateCoreDimensions ==
    /\ result' = [op    |-> "_validate_core_dimensions",
                  error |-> _validate_core_dimensions(arg)]
    /\ UNCHANGED frame

GetElectrochemistryDimensions ==
    /\ LET r == get_electrochemistry_dimensions(arg)
       IN  result' = [op    |-> "get_electrochemistry_dimensions",
                      error |-> r.error,
                      value |-> r.value]
    /\ UNCHANGED frame

\* the devices dict of CSVloader.get_loader
LoaderDevices ==
    ("eclab" :> "ECLabLoader") @@ ("hplc" :> "LabSolutionsLoader")
        @@ ("gc" :> "LabSolutionsLoader")

\* the devices dict of ECConverter.get_converter
ConverterDevices == ("eclab" :> "ECLabConverter")

\* device identifiers handed to the lookups; "None" is the default None
DeviceNames == {"eclab", "hplc", "gc", "None", "thiolab"}

UnknownLoader(device) ==
    <<"KeyError", "Device wth name '" \o device \o "' is unknown to the loader'.">>

UnknownConverter(device) ==
    <<"KeyError",
      "Device wth name '" \o device \o "' is unknown to the converter'.">>

\* what importing labsolutionsloader.py gives, by the installation: the
\* module imports tkinter, imports csvloader as a top-level module and
\* opens a file under D:\Research Data when it is loaded
LabSolutionsImports ==
    { NoError,
      <<"ModuleNotFoundError", "No module named 'tkinter'">>,
      <<"ModuleNotFoundError", "No module named 'csvloader'">>,
      <<"FileNotFoundError", "LK005_df10_240min.txt">> }

\* CSVloader.get_loader: both loader modules are imported before the lookup
get_loader(device, imported) ==
    IF imported # NoError THEN [error |-> imported, value |-> ""]
    ELSE IF device \in DOMAIN LoaderDevices
         THEN [error |-> NoError, value |-> LoaderDevices[device]]
         ELSE [error |-> UnknownLoader(device), value |-> ""]

\* ECConverter.get_converter
get_converter(device) ==
    IF device \in DOMAIN ConverterDevices
    THEN [error |-> NoError, value |-> ConverterDevices[device]]
    ELSE [error |-> UnknownConverter(device), value |-> ""]

GetLoader ==
    /\ \E device \in DeviceNames, imported \in LabSolutionsImports :
          LET r == get_loader(device, imported)
          IN  result' = [op |-> "get_loader", device |-> device,
                         error |-> r.error, value |-> r.value]
    /\ UNCHANGED frame

GetConverter ==
    /\ \E device \in DeviceNames :
          LET r == get_converter(device)
          IN  result' = [op |-> "get_converter", device |-> device,
                         error |-> r.error, value |-> r.value]
    /\ UNCHANGED frame

NextDims ==
    \/ ValidateCoreDimensions
    \/ GetElectrochemistryDimensions
    \/ GetLoader
    \/ GetConverter

SpecDims == InitDims /\ [][NextDims]_vars

(***************************************************************************)
(* Properties of the dimension classmethods (checked under SpecDims).      *)
(***************************************************************************)
TimeAliases == {"t"}
VoltageAliases == {"E", "U"}
CurrentAliases == {"I", "j"}

AliasSets ==
    [time |-> TimeAliases, voltage |-> VoltageAliases,
     current |-> CurrentAliases]

DimensionKeys == {"time", "voltage", "current"}

DimsCalled ==
    result.op \in {"_validate_core_dimensions",
                   "get_electrochemistry_dimensions"}

Selected == result.op = "get_electrochemistry_dimensions"
            /\ result.error = NoError

\* C1: the dimension validation fails with a MissingDimension error if and
\* only if one of the dimensions time, voltage, current has no alias among
\* the column names, and the error names a dimension without alias.
C1_MissingDimensionIff ==
    DimsCalled =>
        /\ (result.error # NoError)
           <=> (\E d \in DimensionKeys : AliasSets[d] \cap ToSet(arg) = {})
        /\ result.error # NoError
           => \E d \in DimensionKeys :
                  /\ result.error = MissingDimension(d)
                  /\ AliasSets[d] \cap ToSet(arg) = {}

\* ['t', 'U'] fails naming 'current'
C1_Witness ==
    /\ result.op = "get_electrochemistry_dimensions"
    /\ arg = <<"t", "U">>
    /\ result.error = MissingDimension("current")

\* C2: on success get_electrochemistry_dimensions returns exactly the
\* aliases that occur in the column names, each once, in the order
\* t, E, U, I, j whatever the order of the input.
C2_AllAliasesInFixedOrder ==
    Selected =>
        result.value = SelectSeq(<<"t", "E", "U", "I", "j">>,
                                 LAMBDA a : a \in ToSet(arg))

\* an input out of order with both voltage aliases
C2_Witness ==
    /\ Selected
    /\ arg = <<"j", "U", "E", "t">>
    /\ result.value = <<"t", "E", "U", "j">>

CountOf(value, aliases) ==
    Cardinality({i \in DOMAIN value : value[i] \in aliases})

\* C3 as stated: when several aliases of one dimension coexist, only the
\* first is kept, so the selection holds exactly one column per dimension.
C3_Original_OnePerDimension ==
    Selected =>
        \A d \in DimensionKeys : CountOf(result.value, AliasSets[d]) = 1

\* C3 amended: when several aliases of one dimension coexist, all of them
\* are kept, in priority order (E before U, I before j): the selection holds
\* one column for each alias present, hence at least one per dimension.
C3_AllCoexistingAliasesKept ==
    Selected =>
        /\ \A d \in DimensionKeys :
              /\ CountOf(result.value, AliasSets[d])
                   = Cardinality(AliasSets[d] \cap ToSet(arg))
              /\ CountOf(result.value, AliasSets[d]) >= 1
        /\ \A i, j \in DOMAIN result.value :
              /\ (result.value[i] = "E" /\ result.value[j] = "U") => i < j
              /\ (result.value[i] = "I" /\ result.value[j] = "j") => i < j

\* E and U coexist and both are selected
C3_Witness ==
    /\ Selected
    /\ {"E", "U"} \subseteq ToSet(arg)
    /\ CountOf(result.value, VoltageAliases) = 2

(***************************************************************************)
(* Properties of the loaders' field lists (checked under Spec).            *)
(***************************************************************************)
FieldsCalled == result.op \in {"fields", "schema"}

WithUserFields == loader._fields # <<>>

Columns == ToSet(loader.column_names)

\* the field registry of the loader's device: empty for the base loader
Registry == IF loader.kind = "ECLabLoader" THEN biologic_fields ELSE <<>>

InRegistry(c) == \E k \in DOMAIN Registry : Registry[k].name = c

\* the descriptor a column gets without user metadata: the registry's,
\* else the placeholder carrying the provenance comment
Placeholder(c) ==
    [name |-> c, comment |-> "Created by echemdb-converters."]

Synthesized(c) ==
    IF InRegistry(c)
    THEN CHOOSE f \in ToSet(Registry) : f.name = c
    ELSE Placeholder(c)

\* names of the user descriptors that have one
UserNames ==
    {loader._fields[i].name :
        i \in {k \in DOMAIN loader._fields : HasName(loader._fields[k])}}

\* C4: the list returned by fields/schema has as many descriptors as the
\* table has columns, and the set of descriptor names equals the set of
\* column names, for every loader with or without user fields.
C4_SchemaTableConsistency ==
    FieldsCalled =>
        /\ Len(result.value) = Len(loader.column_names)
        /\ ToSet(field_names(result.value)) = Columns

\* C5: without user fields there is one descriptor per column name, the
\* registry's when the registry knows the name and a placeholder otherwise;
\* the base loader yields one placeholder per column in column order.
C5_OneDescriptorPerColumn ==
    ((FieldsCalled \/ result.op = "create_fields") /\ ~WithUserFields) =>
        /\ Len(result.value) = Len(loader.column_names)
        /\ \A c \in Columns : Synthesized(c) \in ToSet(result.value)
        /\ loader.kind = "CSVloader" =>
              result.value = [i \in DOMAIN loader.column_names |->
                                 Placeholder(loader.column_names[i])]

\* C6: with user fields, the descriptor synthesized for a column that no
\* user descriptor covers is the registry's descriptor when the registry
\* knows the name, and the placeholder only otherwise.
C6_UncoveredColumnFromRegistry ==
    (FieldsCalled /\ WithUserFields) =>
        \A c \in Columns \ UserNames :
            \A i \in DOMAIN result.value :
                (HasName(result.value[i]) /\ result.value[i].name = c)
                    => result.value[i] = Synthesized(c)

KeptUserFields ==
    SelectSeq(loader._fields, LAMBDA f : HasName(f) /\ f.name \in Columns)

UncoveredColumns ==
    SelectSeq(loader.column_names, LAMBDA c : c \notin UserNames)

\* C7: with user fields, the reconciled list is the user descriptors whose
\* name is a column name, unchanged and in the order supplied, followed by
\* one descriptor for each uncovered column in column order.
C7_KeepRemoveAppend ==
    (FieldsCalled /\ WithUserFields) =>
        /\ Len(result.value) = Len(KeptUserFields) + Len(UncoveredColumns)
        /\ SubSeq(result.value, 1, Len(KeptUserFields)) = KeptUserFields
        /\ \A k \in DOMAIN UncoveredColumns :
              LET f == result.value[Len(KeptUserFields) + k]
              IN  HasName(f) /\ f.name = UncoveredColumns[k]

\* C8: every user descriptor without a name is dropped from the reconciled
\* list, however many there are and wherever they stand, and dropping one
\* does not abort the access.
C8_NamelessDropped ==
    (FieldsCalled /\ WithUserFields) =>
        /\ result.error = NoError
        /\ \A i \in DOMAIN result.value : HasName(result.value[i])

SchemaMismatchCount(fields_count, columns_count) ==
    <<"SchemaMismatch", "count", fields_count, columns_count>>

SchemaMismatchNames == <<"SchemaMismatch", "names">>

CountsDiffer ==
    WithUserFields /\ Len(loader._fields) # Len(loader.column_names)

\* some column has no descriptor, or some descriptor names no column
NamesDiffer == WithUserFields /\ UserNames # Columns

\* C9 as stated: a user field list whose length differs from the number of
\* columns fails with a count mismatch reporting both counts.
C9_Original_CountMismatchRaised ==
    (FieldsCalled /\ CountsDiffer) =>
        result.error = SchemaMismatchCount(Len(loader._fields),
                                           Len(loader.column_names))

\* C9 amended: a user field list whose length differs from the number of
\* columns raises no error; the list is reconciled, and the returned list
\* has at least as many descriptors as there are columns, its field_names
\* containing every column name.
C9_CountMismatchReconciled ==
    (FieldsCalled /\ CountsDiffer) =>
        /\ result.error = NoError
        /\ Columns \subseteq ToSet(field_names(result.value))
        /\ Len(result.value) >= Len(loader.column_names)

\* one descriptor for three columns
C9_Witness ==
    /\ result.op = "fields"
    /\ loader.column_names = <<"t", "E", "j">>
    /\ loader._fields = <<[name |-> "E", unit |-> "V", reference |-> "RHE"]>>
    /\ result.error = NoError
    /\ Len(result.value) = 3

\* C10 as stated: a user field list in which a column has no descriptor or
\* a descriptor names no column fails with a names mismatch.
C10_Original_NamesMismatchRaised ==
    (FieldsCalled /\ NamesDiffer) => result.error = SchemaMismatchNames

\* C10 amended: such a list raises no error; every descriptor naming no
\* column is removed, and a placeholder is appended for every column that no
\* supplied descriptor names (a descriptor without name counting under the
\* default name "field" that Schema.field_names reports for it).
C10_NamesMismatchReconciled ==
    (FieldsCalled /\ NamesDiffer) =>
        /\ result.error = NoError
        /\ \A i \in DOMAIN result.value :
              HasName(result.value[i]) => result.value[i].name \in Columns
        /\ \A c \in Columns \ ToSet(field_names(loader._fields)) :
              Placeholder(c) \in ToSet(result.value)

\* user fields E, j, x for columns t, E, j give E, j, t
C10_Witness ==
    /\ result.op = "fields"
    /\ loader.column_names = <<"t", "E", "j">>
    /\ loader._fields = <<[name |-> "E", unit |-> "V", reference |-> "RHE"],
                          [name |-> "j", unit |-> "uA / cm2"],
                          [name |-> "x"]>>
    /\ result.value = <<[name |-> "E", unit |-> "V", reference |-> "RHE"],
                        [name |-> "j", unit |-> "uA / cm2"],
                        Placeholder("t")>>

(***************************************************************************)
(* Object identity.  A descriptor that is one of the objects the program   *)
(* keeps (an entry of biologic_fields, a dict of the list passed as        *)
(* fields) carries the key "ref" naming that object; a descriptor without  *)
(* the key is a fresh object.  Writing to a descriptor that carries a ref  *)
(* writes to the object kept.                                              *)
(***************************************************************************)
Tag(d, ref) == ("ref" :> ref) @@ d

Untag(d) == [k \in DOMAIN d \ {"ref"} |-> d[k]]

UntagAll(ds) == [i \in DOMAIN ds |-> Untag(ds[i])]

\* variant: the Field shares the dict it was built from
Field_shared(d) == d

\* Field(descriptor): a new object holding the keys of the descriptor
Field(d) == Untag(d)

\* the objects self.create_fields() returns: new dicts for the base loader,
\* the entries of biologic_fields themselves for the EC-Lab loader
create_fields_objects(l) ==
    IF l.kind = "ECLabLoader"
    THEN LET tagged == [k \in DOMAIN registry |->
                           Tag(registry[k], <<"registry", k>>)]
             RECURSIVE From(_)
             From(k) == IF k > Len(tagged) THEN <<>>
                        ELSE MatchesOf(tagged[k], l.column_names, 1)
                             \o From(k + 1)
         IN  From(1)
    ELSE CSVloader_create_fields(l.column_names)

\* the objects CSVloader.fields returns: the list of create_fields(), or the
\* fields of the schema built from Field(field) for field in self._fields
fields_objects(l) ==
    IF l._fields = <<>>
    THEN create_fields_objects(l)
    ELSE fields([l EXCEPT !._fields =
                    [i \in DOMAIN l._fields |->
                        Field(Tag(l._fields[i], <<"user", i>>))]]).value

\* CSVloader.schema: Schema(fields=self.fields) turns every element that is
\* not yet a Field into Field(element) and keeps the Fields it is given
loader_schema(l) ==
    LET objs == fields_objects(l)
    IN  IF l._fields = <<>>
        THEN [i \in DOMAIN objs |-> Field(objs[i])]
        ELSE objs

\* CSVloader.df: one column per column name, in file order; the data of a
\* column is identified by the name the column has in the file
loader_df(l) ==
    [i \in DOMAIN l.column_names |->
        [label |-> l.column_names[i], data |-> l.column_names[i]]]

(***************************************************************************)
(* The converters: ECConverter of ecconverter.py, whose name_conversion a  *)
(* device converter overrides, and ECLabConverter of eclabconverter.py,    *)
(* which derives from the ECConverter of converter.py.                     *)
(***************************************************************************)
\* ECConverter.name_conversion
EmptyConversion == [n \in {} |-> ""]

\* ECLabConverter.name_conversion
ECLabConversion ==
    ("time/s" :> "t") @@ ("Ewe/V" :> "E") @@ ("<I>/mA" :> "I")

\* index of the first field bearing the name (Schema.get_field)
FirstIndex(fs, name) ==
    CHOOSE i \in DOMAIN fs :
        /\ FieldName(fs[i]) = name
        /\ \A j \in 1..(i - 1) : FieldName(fs[j]) # name

\* the loop of ECConverter._schema over the names taken before the loop:
\* schema.get_field(name)["name"] = self.name_conversion[name]
RECURSIVE Rename(_, _, _, _)
Rename(fs, names, k, conversion) ==
    IF k > Len(names) THEN fs
    ELSE IF names[k] \in DOMAIN conversion
         THEN LET i == FirstIndex(fs, names[k])
              IN  Rename([fs EXCEPT ![i] =
                             ("name" :> conversion[names[k]]) @@ fs[i]],
                         names, k + 1, conversion)
         ELSE Rename(fs, names, k + 1, conversion)

\* ECConverter._schema: the objects of the renamed schema
_schema(c, l) ==
    LET schema == loader_schema(l)
    IN  Rename(schema, field_names(schema), 1, c.name_conversion)

\* the objects kept by the program after the fields fs were written to
WrittenRegistry(fs) ==
    [k \in DOMAIN registry |->
        IF \E i \in DOMAIN fs : "ref" \in DOMAIN fs[i]
                                /\ fs[i].ref = <<"registry", k>>
        THEN Untag(fs[CHOOSE i \in DOMAIN fs :
                          "ref" \in DOMAIN fs[i]
                          /\ fs[i].ref = <<"registry", k>>])
        ELSE registry[k]]

WrittenUserFields(fs) ==
    [k \in DOMAIN loader._fields |->
        IF \E i \in DOMAIN fs : "ref" \in DOMAIN fs[i]
                                /\ fs[i].ref = <<"user", k>>
        THEN Untag(fs[CHOOSE i \in DOMAIN fs :
                          "ref" \in DOMAIN fs[i]
                          /\ fs[i].ref = <<"user", k>>])
        ELSE loader._fields[k]]

\* Schema.get_field raises when no field bears the name
FieldMissing(name) ==
    <<"FrictionlessException", "field \"" \o name \o "\" does not exist">>

\* [schema.get_field(name) for name in names]: raises at the first name
\* that no field bears
RECURSIVE GetFields(_, _, _)
GetFields(fs, names, k) ==
    IF k > Len(names) THEN [error |-> NoError, value |-> <<>>]
    ELSE IF names[k] \notin ToSet(field_names(fs))
         THEN [error |-> FieldMissing(names[k]), value |-> <<>>]
         ELSE LET rest == GetFields(fs, names, k + 1)
              IN  IF rest.error # NoError THEN rest
                  ELSE [error |-> NoError,
                        value |-> <<get_field(fs, names[k])>> \o rest.value]

\* ECConverter.schema of ecconverter.py
ECConverter_schema(c, l) ==
    LET renamed == _schema(c, l)
        dims    == get_electrochemistry_dimensions(field_names(renamed))
    IN  IF dims.error # NoError THEN dims
        ELSE GetFields(renamed, dims.value, 1)

\* ECConverter.schema of converter.py: no renaming, the fields are looked
\* up in the loader's schema under the names of self.column_names
OldConverter_column_names(l) ==
    get_electrochemistry_dimensions(l.column_names)

OldConverter_schema(l) ==
    LET names == OldConverter_column_names(l)
    IN  IF names.error # NoError THEN names
        ELSE GetFields(loader_schema(l), names.value, 1)

\* schema, dispatched on the converter's class
converter_schema(c, l) ==
    IF c.cls = "ECLabConverter"
    THEN OldConverter_schema(l)
    ELSE ECConverter_schema(c, l)

\* column_names: self.schema.field_names in ecconverter.py,
\* get_electrochemistry_dimensions(self.loader.column_names) in converter.py
converter_column_names(c, l) ==
    IF c.cls = "ECLabConverter"
    THEN OldConverter_column_names(l)
    ELSE LET r == ECConverter_schema(c, l)
         IN  IF r.error # NoError THEN r
             ELSE [error |-> NoError, value |-> field_names(r.value)]

\* pandas refuses a list of labels of another length than the columns
LengthMismatch(have, given) ==
    <<"ValueError", "Length mismatch", have, given>>

\* ECConverter._df: df.columns = self._schema.field_names labels the
\* columns of the loader's table by position
_df(c, l) ==
    LET df    == loader_df(l)
        names == field_names(_schema(c, l))
    IN  IF Len(names) # Len(df)
        THEN [error |-> LengthMismatch(Len(df), Len(names)), value |-> <<>>]
        ELSE [error |-> NoError,
              value |-> [i \in DOMAIN df |->
                            [label |-> names[i], data |-> df[i].data]]]

\* variant: the columns that bear one of the names, in the table's order
SelectColumns_table_order(df, names, k) ==
    SelectSeq(df, LAMBDA col :
                     \E i \in k..Len(names) : col.label = names[i])

\* df[names]: for each name in turn, the columns labelled with it
RECURSIVE SelectColumns(_, _, _)
SelectColumns(df, names, k) ==
    IF k > Len(names) THEN <<>>
    ELSE SelectSeq(df, LAMBDA col : col.label = names[k])
         \o SelectColumns(df, names, k + 1)

\* ECConverter.df of ecconverter.py: self._df[self.column_names]
ECConverter_df(c, l) ==
    LET whole == _df(c, l)
        names == converter_column_names(c, l)
    IN  IF whole.error # NoError THEN whole
        ELSE IF names.error # NoError THEN names
        ELSE [error |-> NoError,
              value |-> SelectColumns(whole.value, names.value, 1)]

\* ECConverter.df of converter.py:
\* self.loader.df[self.get_electrochemistry_dimensions(self.column_names)]
OldConverter_df(l) ==
    LET names == OldConverter_column_names(l)
    IN  IF names.error # NoError THEN names
        ELSE LET again == get_electrochemistry_dimensions(names.value)
             IN  IF again.error # NoError THEN again
                 ELSE [error |-> NoError,
                       value |-> SelectColumns(loader_df(l), again.value, 1)]

converter_df(c, l) ==
    IF c.cls = "ECLabConverter"
    THEN OldConverter_df(l)
    ELSE ECConverter_df(c, l)

(***************************************************************************)
(* State machine of a converter built on a loader.                         *)
(***************************************************************************)
\* largest number of columns of a file handed to a converter
MaxConvCols == 5
\* longest list of user-supplied field descriptors of such a loader
MaxConvFields == 2

\* a device converter whose map sends a column to a name that is a key too
ChainConversion == ("x" :> "E") @@ ("E" :> "U")

Converters ==
    {[cls |-> "ECConverter", name_conversion |-> m] :
        m \in {EmptyConversion, ECLabConversion, ChainConversion}}
    \cup {[cls |-> "ECLabConverter", name_conversion |-> ECLabConversion]}

CSVColumnNames == {"t", "E", "j", "x"}

\* the columns of the EC-Lab doctest files, whose first column is mode
ECLabColumnNames == {"mode", "time/s", "Ewe/V", "<I>/mA", "control/V"}

ConvColumnLists(kind) ==
    IF kind = "ECLabLoader"
    THEN {c \in SeqsUpTo(ECLabColumnNames, MaxConvCols) :
             /\ Len(c) >= 2
             /\ IsInjective(c)
             /\ c[1] = "mode"}
    ELSE {c \in SeqsUpTo(CSVColumnNames, MaxConvCols) :
             Len(c) >= 1 /\ IsInjective(c)}

ConvUserDescriptors ==
    { [name |-> "E", unit |-> "V", reference |-> "RHE"],
      [name |-> "E", unit |-> "mV"] }

\* the mapping the doctest of CSVloader.metadata passes as metadata
DoctestMetadata == [foo |-> "bar"]

ConvLoaders ==
    UNION {[kind : {kind},
            column_names : ConvColumnLists(kind),
            _fields : SeqsUpTo(ConvUserDescriptors, MaxConvFields),
            _metadata : {DoctestMetadata}] :
           kind \in {"CSVloader", "ECLabLoader"}}

InitConv ==
    /\ loader \in ConvLoaders
    /\ converter \in Converters
    /\ arg = <<>>
    /\ result = [op |-> "init"]
    /\ registry = biologic_fields
    /\ seen = NothingSeen

\* the ECConverter of converter.py has no _schema and no _df
NoAttribute(name) == <<"AttributeError", name>>

\* the objects kept after an accessor of the converter ran: every access
\* to self._schema renames the fields of a schema of the loader
Written ==
    IF converter.cls = "ECLabConverter"
    THEN /\ registry' = registry
         /\ loader' = loader
    ELSE LET renamed == _schema(converter, loader)
         IN  /\ registry' = WrittenRegistry(renamed)
             /\ loader' = [loader EXCEPT !._fields = WrittenUserFields(renamed)]

\* the outcome of a public accessor is remembered under its name
Returned(op, r) ==
    /\ result' = [op |-> op, error |-> r.error, value |-> r.value]
    /\ seen' = IF op \in TrackedAccessors
               THEN [outcomes |-> [seen.outcomes EXCEPT ![op] = @ \cup {r}],
                     repeated |-> seen.repeated \/ seen.outcomes[op] # {}]
               ELSE seen
    /\ UNCHANGED <<arg, converter>>

\* converter._schema
ConverterRenamedSchema ==
    /\ Returned("converter._schema",
                IF converter.cls = "ECLabConverter"
                THEN [error |-> NoAttribute("_schema"), value |-> <<>>]
                ELSE [error |-> NoError,
                      value |-> UntagAll(_schema(converter, loader))])
    /\ Written

\* converter.schema
ConverterSchema ==
    /\ LET r == converter_schema(converter, loader)
       IN  Returned("converter.schema",
                    [error |-> r.error, value |-> UntagAll(r.value)])
    /\ Written

\* converter.column_names
ConverterColumnNames ==
    /\ Returned("converter.column_names",
                converter_column_names(converter, loader))
    /\ Written

\* converter.df
ConverterDf ==
    /\ Returned("converter.df", converter_df(converter, loader))
    /\ Written

\* converter.fields, of a converter built without fields: self.loader.fields
ConverterFields ==
    /\ Returned("converter.fields",
                IF converter.cls = "ECLabConverter"
                THEN [error |-> NoAttribute("fields"), value |-> <<>>]
                ELSE [error |-> NoError,
                      value |-> UntagAll(fields_objects(loader))])
    /\ UNCHANGED <<loader, registry>>

\* variant: the accessor returns the loader's own mapping
metadata_no_copy(l) ==
    [error |-> NoError, value |-> l._metadata, shared |-> TRUE]

\* CSVloader.metadata: self._metadata.copy(), a new mapping with the keys
\* of the loader's; shared tells whether the object returned is the
\* loader's own
metadata(l) ==
    [error |-> NoError, value |-> l._metadata, shared |-> FALSE]

\* ECConverter.metadata of ecconverter.py: self.loader.metadata; the
\* ECConverter of converter.py has no such accessor
converter_metadata(c, l) ==
    IF c.cls = "ECLabConverter"
    THEN [error |-> NoAttribute("metadata"), value |-> <<>>, shared |-> FALSE]
    ELSE metadata(l)

\* converter.metadata
ConverterMetadata ==
    /\ LET r == converter_metadata(converter, loader)
       IN  Returned("converter.metadata",
                    [error |-> r.error, value |-> r.value])
    /\ UNCHANGED <<loader, registry>>

NextConv ==
    \/ ConverterRenamedSchema
    \/ ConverterSchema
    \/ ConverterColumnNames
    \/ ConverterDf
    \/ ConverterFields
    \/ ConverterMetadata
    \/ CreateFields

SpecConv == InitConv /\ [][NextConv]_vars

(***************************************************************************)
(* C11                                                                     *)
(***************************************************************************)
RenamedSchemaReturned ==
    /\ result.op = "converter._schema"
    /\ result.error = NoError

\* the descriptors of the loader's schema before any renaming
OriginalSchema == UntagAll(loader_schema(loader))

\* the name the rename map gives to an original name
RenamedName(n) ==
    IF n \in DOMAIN converter.name_conversion
    THEN converter.name_conversion[n]
    ELSE n

\* C11: the rename step gives the descriptor of original name n the name
\* map[n] when n is a key of the map and leaves it otherwise, each
\* descriptor once by its own original name, keeping all other attributes
\* and the order of the descriptors.
C11_RenamedOnceByOriginalName ==
    RenamedSchemaReturned =>
        /\ Len(result.value) = Len(OriginalSchema)
        /\ \A i \in DOMAIN OriginalSchema :
              result.value[i] =
                  ("name" :> RenamedName(FieldName(OriginalSchema[i])))
                      @@ OriginalSchema[i]

(***************************************************************************)
(* C12                                                                     *)
(***************************************************************************)
FinalTableReturned ==
    /\ result.op = "converter.df"
    /\ result.error = NoError

\* C12: every column of the converter's final table holds the values of
\* the loader column whose renamed name it bears, whatever the order of
\* the descriptors in the loader's schema.
C12_ColumnsHoldTheirOwnValues ==
    FinalTableReturned =>
        \A i \in DOMAIN result.value :
            result.value[i].label = RenamedName(result.value[i].data)

(***************************************************************************)
(* C13                                                                     *)
(***************************************************************************)
FinalSchemaReturned ==
    /\ result.op = "converter.schema"
    /\ result.error = NoError

\* the descriptors the rename step returns
RenamedSchema == UntagAll(_schema(converter, loader))

\* the aliases of time, then of voltage, then of current
RECURSIVE CanonicalNamesFrom(_)
CanonicalNamesFrom(k) ==
    IF k > Len(valid_dimensions) THEN <<>>
    ELSE valid_dimensions[k].item \o CanonicalNamesFrom(k + 1)

\* the descriptors of fs that bear the k-th and later names, name by name
RECURSIVE InCanonicalOrder(_, _, _)
InCanonicalOrder(fs, names, k) ==
    IF k > Len(names) THEN <<>>
    ELSE SelectSeq(fs, LAMBDA f : FieldName(f) = names[k])
         \o InCanonicalOrder(fs, names, k + 1)

\* C13: the final schema is the sequence of the renamed descriptors whose
\* names are canonical, ordered time, voltage, current, each with the
\* attributes of its own descriptor; all other descriptors are absent.
C13_FinalSchemaIsCanonicalProjection ==
    FinalSchemaReturned =>
        result.value =
            InCanonicalOrder(RenamedSchema, CanonicalNamesFrom(1), 1)

(***************************************************************************)
(* C14                                                                     *)
(***************************************************************************)
\* the raw columns of the file of the ECLabConverter doctest
ScenarioDColumns == <<"mode", "time/s", "Ewe/V", "<I>/mA", "control/V">>

ScenarioD ==
    /\ converter.cls = "ECLabConverter"
    /\ loader.kind = "ECLabLoader"
    /\ loader.column_names = ScenarioDColumns
    /\ result.op = "converter.column_names"

\* C14: the EC-Lab device converter on an EC-Lab loader with the raw
\* columns mode, time/s, Ewe/V, <I>/mA, control/V yields the final column
\* names t, E, I in that order and raises no missing-dimension error.
C14_ECLabScenarioColumnNames ==
    ScenarioD =>
        /\ result.error = NoError
        /\ result.value = <<"t", "E", "I">>

(***************************************************************************)
(* C15                                                                     *)
(***************************************************************************)
\* C15: no access to an accessor of the converter changes what the loader
\* returns: the loader (its column names and the field list the user passed
\* in) and the EC-Lab field registry, of which the loader's fields, schema
\* and table are functions, keep their values.
C15_ConversionLeavesLoaderUnchanged ==
    [][/\ loader' = loader
       /\ registry' = registry]_vars

\* after a conversion that renamed time/s to t, the loader still returns
\* the descriptor time/s and the registry is as it was defined
C15_Witness ==
    /\ loader.kind = "ECLabLoader"
    /\ loader._fields = <<>>
    /\ converter = [cls |-> "ECConverter", name_conversion |-> ECLabConversion]
    /\ \E r \in seen.outcomes["converter.schema"] :
          /\ r.error = NoError
          /\ "t" \in ToSet(field_names(r.value))
    /\ result.op = "converter.fields"
    /\ "time/s" \in ToSet(field_names(result.value))
    /\ registry = biologic_fields

(***************************************************************************)
(* C16                                                                     *)
(***************************************************************************)
\* C16: converting the same loader again, with the same converter or with
\* another converter of the same class built on that loader, yields the
\* same column names, the same schema and the same table as the first
\* time, and a conversion that failed fails again with the same error.
C16_RepeatedConversionSameOutcome ==
    \A op \in TrackedAccessors : Cardinality(seen.outcomes[op]) <= 1

\* the table was asked for again after a conversion that renamed columns,
\* and every accessor has given one outcome only
C16_Witness ==
    /\ seen.repeated
    /\ converter = [cls |-> "ECConverter", name_conversion |-> ECLabConversion]
    /\ loader.kind = "ECLabLoader"
    /\ result.op = "converter.df"
    /\ result.error = NoError
    /\ seen.outcomes["converter.df"] =
          {[error |-> NoError, value |-> result.value]}
    /\ \A op \in TrackedAccessors : seen.outcomes[op] # {}

(***************************************************************************)
(* The file a loader was constructed on.  loader._file, the text read once *)
(* at construction, is the sequence of its lines.                          *)
(***************************************************************************)
\* largest number of lines of a file
MaxLines == 4

\* lines of EC-Lab files: a title, the header count in two spellings, a
\* header line with a comma, a column-name line, a data row with a comma
\* as decimal separator and one with a period
FileLines ==
    { "EC-Lab ASCII FILE",
      "Nb header lines : 2",
      "nb HEADER lines:3",
      "Comment : a,b",
      "mode\ttime/s",
      "2\t0,1",
      "2\t0.1" }

\* re.findall(r"(?P<headerlines>Nb header lines) *\: *(?P<value>-?\d+\.?\d*)",
\* str(line), re.IGNORECASE): the (headerlines, value) groups of the matches
findall(line) ==
    CASE line = "Nb header lines : 2" -> << <<"Nb header lines", "2">> >>
      [] line = "nb HEADER lines:3"   -> << <<"nb HEADER lines", "3">> >>
      [] OTHER                        -> << >>

\* int(text) of a text of digits
int(text) ==
    CASE text = "2" -> 2
      [] text = "3" -> 3

\* "," in line
HasComma(line) == line \in {"Comment : a,b", "2\t0,1"}

\* the labels pandas reads from a column-name line for a separator
Split(line, sep) ==
    CASE line = "mode\ttime/s" /\ sep = "\t" -> <<"mode", "time/s">>
      [] line = "2\t0,1" /\ sep = "\t"       -> <<"2", "0,1">>
      [] line = "2\t0.1" /\ sep = "\t"       -> <<"2", "0.1">>
      [] line = "2\t0,1" /\ sep = ","        -> <<"2\t0", "1">>
      [] line = "Comment : a,b" /\ sep = "," -> <<"Comment : a", "b">>
      [] OTHER                               -> <<line>>

\* matches[0] of an empty list, readlines()[0] of a file without lines
IndexError == <<"IndexError", "list index out of range">>

\* raise NotImplementedError
NotImplemented == <<"NotImplementedError">>

\* pandas finds no line to take the column names from
NoColumns == <<"EmptyDataError", "No columns to parse from file">>

\* lines[start:] of a Python list, start counted from 0
SliceFrom(lines, start) ==
    IF start >= Len(lines) THEN <<>>
    ELSE SubSeq(lines, start + 1, Len(lines))

\* variant: every access hands out the one stream handed out before
file_shared(l) == [content |-> l._file, pos |-> l.view]

\* CSVloader.file: StringIO(self._file), a new stream at position 0 over
\* the text read at construction
file(l) == [content |-> l._file, pos |-> 0]

\* stream.readlines(): the lines from the position of the stream on
readlines(stream) == SliceFrom(stream.content, stream.pos)

\* the for loop of ECLabLoader.header_lines from the k-th line on: the
\* non-empty findall results, in file order
RECURSIVE MatchesFrom(_, _)
MatchesFrom(lines, k) ==
    IF k > Len(lines) THEN <<>>
    ELSE IF findall(lines[k]) # <<>>
         THEN <<findall(lines[k])>> \o MatchesFrom(lines, k + 1)
         ELSE MatchesFrom(lines, k + 1)

\* variant: the count is taken from the last matching line
ECLabLoader_header_lines_last(l) ==
    LET matches == MatchesFrom(readlines(file(l)), 1)
    IN  IF matches = <<>>
        THEN [error |-> IndexError, value |-> 0]
        ELSE [error |-> NoError,
              value |-> int(matches[Len(matches)][1][2]) - 1]

\* ECLabLoader.header_lines: int(matches[0][0][1]) - 1
ECLabLoader_header_lines(l) ==
    LET matches == MatchesFrom(readlines(file(l)), 1)
    IN  IF matches = <<>>
        THEN [error |-> IndexError, value |-> 0]
        ELSE [error |-> NoError, value |-> int(matches[1][1][2]) - 1]

\* CSVloader.header_lines
CSVloader_header_lines(l) == [error |-> NoError, value |-> 0]

header_lines(l) ==
    IF l.kind = "ECLabLoader"
    THEN ECLabLoader_header_lines(l)
    ELSE CSVloader_header_lines(l)

\* variant: the data start at the column-name line
data_with_column_line(l) ==
    LET h == header_lines(l)
    IN  IF h.error # NoError THEN [error |-> h.error, value |-> <<>>]
        ELSE [error |-> NoError, value |-> SliceFrom(readlines(file(l)), h.value)]

\* CSVloader.data: self.file.readlines()[self.header_lines + 1:]
data(l) ==
    LET h == header_lines(l)
    IN  IF h.error # NoError THEN [error |-> h.error, value |-> <<>>]
        ELSE [error |-> NoError, value |-> SliceFrom(readlines(file(l)), h.value + 1)]

\* the first n elements of lines, one index after the other: lines[i]
\* raises for an index past the end
RECURSIVE TakeFrom(_, _, _)
TakeFrom(lines, i, n) ==
    IF i > n THEN [error |-> NoError, value |-> <<>>]
    ELSE IF i > Len(lines) THEN [error |-> IndexError, value |-> <<>>]
    ELSE LET rest == TakeFrom(lines, i + 1, n)
         IN  IF rest.error # NoError THEN rest
             ELSE [error |-> NoError, value |-> <<lines[i]>> \o rest.value]

\* CSVloader.header: [lines[_] for _ in range(self.header_lines)]
header(l) ==
    LET lines == readlines(file(l))
        h     == header_lines(l)
    IN  IF h.error # NoError THEN [error |-> h.error, value |-> <<>>]
        ELSE TakeFrom(lines, 1, h.value)

\* variant: the separator is looked for in the last data row
ECLabLoader_decimal_last_row(l) ==
    LET d == data(l)
    IN  IF d.error # NoError THEN [error |-> d.error, value |-> ""]
        ELSE IF d.value = <<>> THEN [error |-> IndexError, value |-> ""]
        ELSE [error |-> NoError,
              value |-> IF HasComma(d.value[Len(d.value)])
                        THEN "," ELSE "."]

\* ECLabLoader.decimal: "," in self.data.readlines()[0]
ECLabLoader_decimal(l) ==
    LET d == data(l)
    IN  IF d.error # NoError THEN [error |-> d.error, value |-> ""]
        ELSE IF d.value = <<>> THEN [error |-> IndexError, value |-> ""]
        ELSE [error |-> NoError,
              value |-> IF HasComma(d.value[1]) THEN "," ELSE "."]

\* CSVloader.decimal
CSVloader_decimal(l) == [error |-> NotImplemented, value |-> ""]

decimal(l) ==
    IF l.kind = "ECLabLoader"
    THEN ECLabLoader_decimal(l)
    ELSE CSVloader_decimal(l)

\* CSVloader.delimiter: detected by clevercsv in the data; the values of an
\* EC-Lab file are tab separated
delimiter(l) ==
    LET d == data(l)
    IN  IF d.error # NoError THEN [error |-> d.error, value |-> ""]
        ELSE [error |-> NoError, value |-> "\t"]

\* pd.read_csv(file, sep=sep, header=h): the labels of line h and the
\* number of rows after it
read_csv(lines, sep, h) ==
    IF h >= Len(lines) THEN [error |-> NoColumns, value |-> <<>>]
    ELSE [error |-> NoError,
          value |-> [columns |-> Split(lines[h + 1], sep),
                     rows    |-> Len(lines) - (h + 1)]]

\* variant: a file without header count is read as one without header
ECLabLoader_df_header_zero(l) ==
    LET h == header_lines(l)
    IN  read_csv(readlines(file(l)), "\t", IF h.error # NoError THEN 0 ELSE h.value)

\* ECLabLoader.df: the arguments sep=self.delimiter, header=self.header_lines
\* and decimal=self.decimal are evaluated in this order before the call
ECLabLoader_df(l) ==
    LET sep == delimiter(l)
        h   == header_lines(l)
        dec == decimal(l)
    IN  IF sep.error # NoError THEN [error |-> sep.error, value |-> <<>>]
        ELSE IF h.error # NoError THEN [error |-> h.error, value |-> <<>>]
        ELSE IF dec.error # NoError THEN [error |-> dec.error, value |-> <<>>]
        ELSE read_csv(readlines(file(l)), sep.value, h.value)

\* CSVloader.df: pd.read_csv(self.file, header=self.header_lines)
CSVloader_df(l) ==
    LET h == header_lines(l)
    IN  IF h.error # NoError THEN [error |-> h.error, value |-> <<>>]
        ELSE read_csv(readlines(file(l)), ",", h.value)

df(l) ==
    IF l.kind = "ECLabLoader" THEN ECLabLoader_df(l) ELSE CSVloader_df(l)

\* CSVloader.column_names: self.df.columns.to_list()
column_names(l) ==
    LET table == df(l)
    IN  IF table.error # NoError THEN table
        ELSE [error |-> NoError, value |-> table.value.columns]

\* CSVloader.fields of a loader on a file: every path reads
\* self.column_names, in create_fields or in the loops over the schema
file_fields(l) ==
    LET names == column_names(l)
    IN  IF names.error # NoError THEN names
        ELSE LET r == fields([kind |-> l.kind, column_names |-> names.value,
                              _fields |-> l._fields])
             IN  [error |-> r.error, value |-> r.value]

(***************************************************************************)
(* State machine of a loader on a file.                                    *)
(***************************************************************************)
Files == SeqsUpTo(FileLines, MaxLines)

\* no fields argument, or a list with one descriptor
FileUserFieldLists == {<<>>, <<[name |-> "time/s", unit |-> "s"]>>}

FileLoaders ==
    [kind : {"CSVloader", "ECLabLoader"},
     _file : Files,
     view : {0},
     _fields : FileUserFieldLists]

InitFile ==
    /\ loader \in FileLoaders
    /\ arg = <<>>
    /\ result = [op |-> "init"]
    /\ registry = biologic_fields
    /\ converter = NoConverter
    /\ seen = NothingSeen

\* an accessor of the loader returned r.value or raised r.error; when it
\* read a stream self.file handed out, that stream is left at its end
Accessed(op, r, reads) ==
    /\ result' = [op |-> op, error |-> r.error, value |-> r.value]
    /\ loader' = [loader EXCEPT !.view = IF reads THEN Len(loader._file)
                                                  ELSE @]
    /\ seen' = [seen EXCEPT !.repeated = @ \/ loader.view # 0]
    /\ UNCHANGED <<arg, registry, converter>>

\* loader.file.readlines()
File ==
    Accessed("file", [error |-> NoError, value |-> readlines(file(loader))],
             TRUE)

HeaderLines ==
    Accessed("header_lines", header_lines(loader),
             loader.kind = "ECLabLoader")

Decimal == Accessed("decimal", decimal(loader), loader.kind = "ECLabLoader")

Header == Accessed("header", header(loader), TRUE)

Data == Accessed("data", data(loader), TRUE)

Df == Accessed("df", df(loader), TRUE)

FileColumnNames == Accessed("column_names", column_names(loader), TRUE)

FileFields == Accessed("fields", file_fields(loader), TRUE)

\* loader.schema: Schema(fields=self.fields)
FileSchema == Accessed("schema", file_fields(loader), TRUE)

NextFile ==
    \/ File
    \/ HeaderLines
    \/ Decimal
    \/ Header
    \/ Data
    \/ Df
    \/ FileColumnNames
    \/ FileFields
    \/ FileSchema

SpecFile == InitFile /\ [][NextFile]_vars

(***************************************************************************)
(* C17                                                                     *)
(***************************************************************************)
\* the lines of the file that match 'Nb header lines : N'
MatchingLines == {i \in DOMAIN loader._file : findall(loader._file[i]) # <<>>}

\* the number N written on the first matching line
FirstN ==
    LET i == CHOOSE i \in MatchingLines : \A j \in MatchingLines : i <= j
    IN  int(findall(loader._file[i])[1][2])

\* C17: header_lines of the EC-Lab loader is N - 1 for the number N on the
\* first line matching 'Nb header lines : N', in any letter case;
\* header_lines of the base loader is 0.
C17_HeaderLinesIsNMinusOne ==
    result.op = "header_lines" =>
        /\ (loader.kind = "ECLabLoader" /\ MatchingLines # {}) =>
              /\ result.error = NoError
              /\ result.value = FirstN - 1
        /\ loader.kind = "CSVloader" =>
              /\ result.error = NoError
              /\ result.value = 0

\* two lines match, the first in other letter case and with another number
C17_Witness ==
    /\ result.op = "header_lines"
    /\ loader.kind = "ECLabLoader"
    /\ loader._file = <<"EC-Lab ASCII FILE", "nb HEADER lines:3",
                        "Nb header lines : 2", "mode\ttime/s">>
    /\ result.value = 2

(***************************************************************************)
(* C18                                                                     *)
(***************************************************************************)
NeedsHeaderCount == {"header_lines", "df", "column_names", "fields"}

\* C18: when no line of an EC-Lab file matches 'Nb header lines : N',
\* header_lines, df, column_names and fields fail with the error of the
\* missing header count and yield no table, names or fields.
C18_NoHeaderCountFails ==
    (/\ loader.kind = "ECLabLoader"
     /\ MatchingLines = {}
     /\ result.op \in NeedsHeaderCount) =>
        /\ result.error = IndexError
        /\ result.op # "header_lines" => result.value = <<>>

\* the table of a file with a column-name line and rows but no header count
C18_Witness ==
    /\ loader.kind = "ECLabLoader"
    /\ loader._file = <<"EC-Lab ASCII FILE", "mode\ttime/s", "2\t0,1">>
    /\ result.op = "df"
    /\ result.error = IndexError

(***************************************************************************)
(* C19                                                                     *)
(***************************************************************************)
\* the file has a line right after the column-name line
HasFirstDataRow == MatchingLines # {} /\ Len(loader._file) >= FirstN + 1

\* C19: decimal of the EC-Lab loader is ',' when the first data row, the
\* line right after the column-name line, contains a comma and '.'
\* otherwise; decimal of the base loader fails with NotImplementedError.
C19_DecimalFromFirstDataRow ==
    result.op = "decimal" =>
        /\ (loader.kind = "ECLabLoader" /\ HasFirstDataRow) =>
              /\ result.error = NoError
              /\ result.value =
                    IF HasComma(loader._file[FirstN + 1]) THEN "," ELSE "."
        /\ loader.kind = "CSVloader" => result.error = NotImplemented

\* the first data row has a period although a header line and a later row
\* have a comma
C19_Witness ==
    /\ result.op = "decimal"
    /\ loader.kind = "ECLabLoader"
    /\ loader._file = <<"Nb header lines : 2", "mode\ttime/s",
                        "2\t0.1", "2\t0,1">>
    /\ result.value = "."

(***************************************************************************)
(* C20                                                                     *)
(***************************************************************************)
DeviceLookedUp == result.op \in {"get_loader", "get_converter"}

\* the classes registered for the lookup that was called
Registered ==
    IF result.op = "get_loader" THEN LoaderDevices ELSE ConverterDevices

\* C20: get_loader and get_converter return the registered class for a
\* supported device identifier (eclab, for the loader also hplc and gc) and
\* fail with the error of an unknown device for every other identifier,
\* the default None included.
C20_DeviceLookup ==
    DeviceLookedUp =>
        IF result.device \in DOMAIN Registered
        THEN /\ result.error = NoError
             /\ result.value = Registered[result.device]
        ELSE result.error =
                 IF result.op = "get_loader"
                 THEN UnknownLoader(result.device)
                 ELSE UnknownConverter(result.device)

(***************************************************************************)
(* C21                                                                     *)
(***************************************************************************)
FileAccessors ==
    {"file", "header", "data", "column_names", "df", "fields", "schema"}

\* what the accessor op gives on the loader l
Outcome(op, l) ==
    CASE op = "file"         -> [error |-> NoError,
                                 value |-> readlines(file(l))]
      [] op = "header"       -> header(l)
      [] op = "data"         -> data(l)
      [] op = "column_names" -> column_names(l)
      [] op = "df"           -> df(l)
      [] op = "fields"       -> file_fields(l)
      [] op = "schema"       -> file_fields(l)

\* the loader as it was constructed: no stream handed out yet
AsConstructed == [loader EXCEPT !.view = 0]

\* C21: the input is read once, at construction, into loader._file; every
\* later access to file, header, data, column_names, df, fields and schema
\* gives what the first access to that accessor gave, whatever was read
\* before through another view.
C21_EveryAccessAsTheFirst ==
    result.op \in FileAccessors =>
        [error |-> result.error, value |-> result.value]
            = Outcome(result.op, AsConstructed)

\* data read after an earlier access had read a view to its end
C21_Witness ==
    /\ seen.repeated
    /\ loader.kind = "CSVloader"
    /\ loader._file = <<"mode\ttime/s", "2\t0.1", "2\t0,1">>
    /\ loader.view = 3
    /\ result.op = "data"
    /\ result.value = <<"2\t0.1", "2\t0,1">>

(***************************************************************************)
(* C22                                                                     *)
(***************************************************************************)
\* C22: create_fields of the EC-Lab loader returns the descriptors of the
\* registry whose names are column names of the file, in the order of the
\* registry and not of the columns, each of them once.
C22_RegistryOrder ==
    (result.op = "create_fields" /\ loader.kind = "ECLabLoader") =>
        result.value =
            SelectSeq(biologic_fields,
                      LAMBDA f : f.name \in ToSet(loader.column_names))

\* control/V, the last column of the file, comes before Ewe/V and <I>/mA
C22_Witness ==
    /\ result.op = "create_fields"
    /\ loader.kind = "ECLabLoader"
    /\ loader.column_names = ScenarioDColumns
    /\ field_names(result.value)
          = <<"mode", "time/s", "control/V", "Ewe/V", "<I>/mA">>

(***************************************************************************)
(* C23                                                                     *)
(***************************************************************************)
\* the loader's field list (converter.fields of a converter built without
\* fields is loader.fields), the renamed schema and the final schema
SchemaProduced ==
    /\ result.op \in {"converter.fields", "converter._schema",
                      "converter.schema"}
    /\ result.error = NoError

\* C23: no schema the system produces holds two descriptors with the same
\* name, neither the loader's reconciled field list nor the converter's
\* renamed and final schema.
C23_NamesAreDistinct ==
    SchemaProduced => IsInjective(field_names(result.value))

(***************************************************************************)
(* C24                                                                     *)
(***************************************************************************)
\* every public accessor of the converter has returned a value
ConversionSucceeded ==
    \A op \in TrackedAccessors :
        /\ seen.outcomes[op] # {}
        /\ \A r \in seen.outcomes[op] : r.error = NoError

\* the labels of the columns of a table
Labels(table) == [i \in DOMAIN table |-> table[i].label]

HeaderCount == IF loader.kind = "ECLabLoader" THEN FirstN - 1 ELSE 0

\* the file has a header count and a column-name line after the header
HasColumnLine ==
    /\ loader.kind = "ECLabLoader" => MatchingLines # {}
    /\ Len(loader._file) >= HeaderCount + 1

\* C25: for a file with at least header_lines + 1 lines, header is the
\* first header_lines lines, data is every line after line index
\* header_lines, and header, the column-name line and data, one after the
\* other, are the raw content line for line.
C25_HeaderColumnLineData ==
    HasColumnLine =>
        /\ result.op = "header" =>
              /\ result.error = NoError
              /\ result.value = SubSeq(loader._file, 1, HeaderCount)
              /\ result.value \o <<loader._file[HeaderCount + 1]>>
                     \o data(loader).value = loader._file
        /\ result.op = "data" =>
              /\ result.error = NoError
              /\ result.value = SubSeq(loader._file, HeaderCount + 2,
                                       Len(loader._file))
              /\ header(loader).value \o <<loader._file[HeaderCount + 1]>>
                     \o result.value = loader._file

\* the data of an EC-Lab file with two header lines before the column names
C25_Witness ==
    /\ result.op = "data"
    /\ loader.kind = "ECLabLoader"
    /\ loader._file = <<"EC-Lab ASCII FILE", "nb HEADER lines:3",
                        "mode\ttime/s", "2\t0,1">>
    /\ result.value = <<"2\t0,1">>
    /\ header(loader).value = <<"EC-Lab ASCII FILE", "nb HEADER lines:3">>

(***************************************************************************)
(* State machine of the metadata of a loader: the mapping is handed to the *)
(* constructor, returned by the accessors and changed by the caller.       *)
(***************************************************************************)
\* largest number of changes the caller makes to the mappings returned
MaxChanges == 2

\* a mapping without keys
EmptyMapping == [k \in {} |-> ""]

\* the metadata argument of the constructor: <<>> when none is given,
\* else the mapping given
MetadataArgs ==
    { <<>>,
      <<EmptyMapping>>,
      <<DoctestMetadata>>,
      <<[foo |-> "bar", source |-> "figure 1"]>> }

\* self._metadata = metadata or {}
InitialMetadata(given) ==
    IF given = <<>> \/ given[1] = EmptyMapping THEN EmptyMapping ELSE given[1]

InitMeta ==
    /\ arg \in MetadataArgs
    /\ \E kind \in {"CSVloader", "ECLabLoader"} :
          loader = [kind |-> kind, column_names |-> <<"t", "E", "j">>,
                    _fields |-> <<>>, _metadata |-> InitialMetadata(arg)]
    /\ converter \in {c \in Converters : c.name_conversion = ECLabConversion}
    /\ result = [op |-> "init"]
    /\ registry = biologic_fields
    /\ seen = NothingSeen

\* the number of changes the caller made to returned mappings so far
ChangesSoFar == IF result.op = "init" THEN 0 ELSE result.changes

\* loader.metadata
LoaderMetadata ==
    /\ LET r == metadata(loader)
       IN  result' = [op |-> "metadata", error |-> r.error,
                      value |-> r.value, shared |-> r.shared,
                      changes |-> ChangesSoFar]
    /\ UNCHANGED frame

\* converter.metadata, keeping the mapping returned
ConverterMetadataKept ==
    /\ LET r == converter_metadata(converter, loader)
       IN  result' = [op |-> "converter.metadata", error |-> r.error,
                      value |-> r.value, shared |-> r.shared,
                      changes |-> ChangesSoFar]
    /\ UNCHANGED frame

\* the mapping m with the key k set to v
WithKey(m, k, v) == (k :> v) @@ m

\* the mapping m without the key k
WithoutKey(m, k) == [j \in DOMAIN m \ {k} |-> m[j]]

\* the caller changes the mapping it was returned to new; a change of the
\* loader's own mapping is a change of loader._metadata
Changed(new) ==
    /\ result' = [result EXCEPT !.value = new, !.op = "changed",
                                !.changes = @ + 1]
    /\ loader' = IF result.shared
                 THEN [loader EXCEPT !._metadata = new]
                 ELSE loader
    /\ UNCHANGED <<arg, registry, converter, seen>>

CanChange ==
    /\ result.op \in {"metadata", "converter.metadata", "changed"}
    /\ result.error = NoError
    /\ result.changes < MaxChanges

\* returned[key] = value, for a new key or one the mapping has
SetKey ==
    /\ CanChange
    /\ \E k \in {"foo", "note"} : Changed(WithKey(result.value, k, "changed"))

\* del returned[key]
DeleteKey ==
    /\ CanChange
    /\ \E k \in DOMAIN result.value : Changed(WithoutKey(result.value, k))

NextMeta ==
    \/ LoaderMetadata
    \/ ConverterMetadataKept
    \/ SetKey
    \/ DeleteKey

SpecMeta == InitMeta /\ [][NextMeta]_vars

(***************************************************************************)
(* C26                                                                     *)
(***************************************************************************)
\* C26: loader.metadata returns the mapping given at construction, the
\* empty mapping when none was given, and so does converter.metadata,
\* whatever keys the caller added to, removed from or replaced in a mapping
\* returned before.
C26_MetadataAsGiven ==
    (result.op \in {"metadata", "converter.metadata"}
         /\ result.error = NoError) =>
        /\ result.value = IF arg = <<>> THEN EmptyMapping ELSE arg[1]
        /\ loader._metadata = result.value

\* the metadata is returned after the caller changed the mappings returned
\* before twice
C26_Witness ==
    /\ result.op \in {"metadata", "converter.metadata"}
    /\ result.error = NoError
    /\ result.changes = 2
    /\ arg = <<DoctestMetadata>>

(***************************************************************************)
(* State machine of the fields argument of the constructors: None, an      *)
(* empty list or a list of descriptors.  An optional argument is <<>> when *)
(* None and <<list>> when a list is given.                                 *)
(***************************************************************************)
\* variant: only None counts as no fields
not_fields_none_only(given) == given = <<>>

\* not self._fields: true for None and for the empty list
not_fields(given) == given = <<>> \/ given[1] = <<>>

\* the part of CSVloader.fields after the test: the descriptors given are
\* validated against the column names
validated_fields(l, given) ==
    LET s0 == [fields |-> given, log |-> <<>>]
        s1 == DropNameless(s0, 1)
        s2 == RemoveObsolete(s1, field_names(s1.fields), 1, l.column_names)
        s3 == AddMissing(s2, l.column_names, 1)
    IN  s3.fields

\* CSVloader.fields of a loader whose _fields is the optional argument
CSVloader_fields(l) ==
    IF not_fields(l._fields)
    THEN create_fields(l)
    ELSE validated_fields(l, l._fields[1])

\* ECConverter.fields of ecconverter.py; the ECConverter of converter.py
\* has no such accessor
ECConverter_fields(c, l) ==
    IF c.cls = "ECLabConverter"
    THEN [error |-> NoAttribute("fields"), value |-> <<>>]
    ELSE IF not_fields(c._fields)
         THEN [error |-> NoError, value |-> CSVloader_fields(l)]
         ELSE [error |-> NoError, value |-> c._fields[1]]

\* the fields argument: None, [] or a list of descriptors
FieldsArgs ==
    {<<>>} \cup {<<fs>> : fs \in SeqsUpTo(ConvUserDescriptors, MaxConvFields)}

\* ECConverter(loader, fields) of ecconverter.py; ECLabConverter(loader),
\* whose constructor takes no fields
ConvertersWithFields ==
    {[cls |-> "ECConverter", name_conversion |-> EmptyConversion,
      _fields |-> f] : f \in FieldsArgs}
    \cup {[cls |-> "ECLabConverter", name_conversion |-> ECLabConversion,
           _fields |-> <<>>]}

InitFieldsArg ==
    /\ \E kind \in {"CSVloader", "ECLabLoader"} :
       \E c \in {c \in ConvColumnLists(kind) : Len(c) = 2} :
       \E f \in FieldsArgs :
          loader = [kind |-> kind, column_names |-> c, _fields |-> f,
                    _metadata |-> DoctestMetadata]
    /\ converter \in ConvertersWithFields
    /\ arg = <<>>
    /\ result = [op |-> "init"]
    /\ registry = biologic_fields
    /\ seen = NothingSeen

\* loader.fields
LoaderFields ==
    /\ result' = [op |-> "fields", error |-> NoError,
                  value |-> CSVloader_fields(loader)]
    /\ UNCHANGED frame

\* converter.fields
ConverterFieldsGiven ==
    /\ LET r == ECConverter_fields(converter, loader)
       IN  result' = [op |-> "converter.fields", error |-> r.error,
                      value |-> r.value]
    /\ UNCHANGED frame

NextFieldsArg ==
    \/ LoaderFields
    \/ ConverterFieldsGiven

SpecFieldsArg == InitFieldsArg /\ [][NextFieldsArg]_vars

(***************************************************************************)
(* C27                                                                     *)
(***************************************************************************)
\* the empty list was passed
EmptyList == << <<>> >>

\* the fields of the same loader built without fields
FieldsOfLoaderWithoutFields ==
    CSVloader_fields([loader EXCEPT !._fields = <<>>])

\* the fields of the same converter built without fields
FieldsOfConverterWithoutFields ==
    ECConverter_fields([converter EXCEPT !._fields = <<>>], loader).value

\* C27: a loader built with fields=[] returns the fields create_fields()
\* generates from the column names, as one built without fields does; a
\* converter built with fields=[] returns its loader's fields, as one built
\* without fields does; a converter built with a non-empty list returns
\* that list.
C27_EmptyFieldListIsNone ==
    /\ (result.op = "fields" /\ loader._fields = EmptyList) =>
          /\ result.value = create_fields(loader)
          /\ result.value = FieldsOfLoaderWithoutFields
    /\ (result.op = "converter.fields" /\ result.error = NoError
            /\ converter._fields = EmptyList) =>
          /\ result.value = CSVloader_fields(loader)
          /\ result.value = FieldsOfConverterWithoutFields
    /\ (result.op = "converter.fields" /\ result.error = NoError
            /\ ~ (converter._fields \in {<<>>, EmptyList})) =>
          result.value = converter._fields[1]

\* a converter built with fields=[] on an EC-Lab loader built with
\* fields=[] returned the registry's descriptor of the second column
C27_Witness ==
    /\ result.op = "converter.fields"
    /\ result.error = NoError
    /\ converter._fields = EmptyList
    /\ loader._fields = EmptyList
    /\ loader.kind = "ECLabLoader"
    /\ "unit" \in DOMAIN result.value[2]

\* a converter built with a non-empty list returned it
C27_GivenListReturned ==
    /\ result.op = "converter.fields"
    /\ Len(converter._fields) = 1
    /\ Len(converter._fields[1]) = 2
    /\ result.value = converter._fields[1]

====
